---- MODULE Spec2Model ----
(***************************************************************************)
(* A model of richmenu: the Menu selection state machine (menu.py), the    *)
(* fuzzy search policy it filters with, and the raw key source (keys.py).  *)
(*                                                                         *)
(* Text is modelled as a sequence of characters; a character is a one      *)
(* letter string, or the name of a control character ("CR" = \r,           *)
(* "LF" = \n, "ESC" = \x1b, "DEL" = \x7f, "ETX" = \x03 (Ctrl+C),           *)
(* "EOT" = \x04 (Ctrl+D), "SUB" = \x1a (Ctrl+Z)).                          *)
(***************************************************************************)
EXTENDS Integers, Sequences, FiniteSets, TLC

VARIABLES
    WIN,             \* keys.WIN: the platform branch chosen at import
    items,           \* Menu._items: the master mapping, in insertion order
    items_filtered,  \* Menu._items_filtered: the filtered view, in order
    selected_index,  \* Menu._selected_index: the cursor
    done,            \* Menu._done
    value,           \* Menu.value
    filter,          \* Menu.filter
    pc,              \* where the session is: new, loop, read, returned, raised
    raised,          \* the exception that ended run(), "none" if none did
    ret,             \* what run() returned (None until it returns a key)
    tty,             \* the terminal's mode
    old_settings,    \* raw_terminal's old_settings, "unset" outside getchar
    entry_tty,       \* the terminal's mode before the first key read
    key,             \* the token the current check_key read, << >> before it has
    len_before,      \* len(filter) when that token was read, 0 before it has
    calls            \* run() calls on this Menu so far: "none", "one", "more"

\* What the session has seen so far, recorded for the properties.
VARIABLES
    downs            \* the Down keys handled since run() was called, -1 once
                     \* another key was handled or more than MaxDowns were,
                     \* and in a session that run() starts with a filter set
VARIABLES
    matched          \* the options search_for_matches returned to the search
                     \* of the key just handled, as positions in _items;
                     \* NoMatch when it was not called

VARIABLES
    escs             \* the escape keys handled in a row up to now in this
                     \* session: 0, 1, or 2 for two and more

\* The terminal
VARIABLES
    table            \* the table the Live display shows: what generate()
                     \* returned when it was last called, as a sequence of rows

hvars == <<downs, matched, escs>>

vars == <<WIN, items, items_filtered, selected_index, done, value, filter, pc,
          raised, ret, tty, old_settings, entry_tty, key, len_before, calls,
          table, hvars>>

\* The search state of the pure-function specification SearchSpec.
VARIABLES
    s_scores,        \* the score of each haystack entry (entry i is option i)
    s_limit,
    s_threshold,
    s_pc,            \* "call" before search_for_matches ran, then "returned"
    s_out            \* the returned <<option index, score>> pairs

\* The scorer state of the pure-function specification ScorerSpec.
VARIABLES
    f_n,             \* the needle
    f_o,             \* an option
    f_q,             \* another option
    f_wo,            \* what fuzz.WRatio(needle, option) returns for f_o
    f_wq,            \* and for f_q
    f_pc,            \* "call" before fuzz_scorer ran, then "returned"
    f_out            \* the two scores

fvars == <<f_n, f_o, f_q, f_wo, f_wq, f_pc, f_out>>

svars == <<s_scores, s_limit, s_threshold, s_pc, s_out, fvars>>

allvars == <<vars, svars>>

-----------------------------------------------------------------------------
\* Bounds of the model.

\* The longest master item set.
MaxItems == 2
\* The longest filter the model lets the user type.
MaxFilterLen == 2
\* The longest haystack and the largest limit search_for_matches is called with
\* on its own.
MaxHay == 3
MaxLimit == 3
MaxDowns == 2
\* The longest needle and the longest short option fuzz_scorer is called with
\* on its own, and the number of characters after the first of its long option.
MaxNeedle == 2
MaxOption == 2
LongLen == 21

-----------------------------------------------------------------------------
\* Python's None, as a value no key of the model equals.
None == <<"None">>

\* keys.py: the key tokens.
UP_ARROW == {<<"ESC", "[", "A">>}
DOWN_ARROW == {<<"ESC", "[", "B">>}
OK_BUTTON == {<<"CR">>, <<"LF", "CR">>, <<"CR", "LF">>}
ESC_BUTTON == {<<"ESC">>}
BACKSPACE == {<<"DEL">>}

is_up(code) == code \in UP_ARROW
is_down(code) == code \in DOWN_ARROW
is_ok(code) == code \in OK_BUTTON
is_esc(code) == code \in ESC_BUTTON
is_backspace(code) == code \in BACKSPACE

\* The tokens one key read can yield in the model: the five reserved ones, a
\* lower-case letter, an upper-case letter, Ctrl+C, the platform's
\* end-of-input character, and the two character escape sequence a terminal
\* sends for Alt+a, which os.read returns in one piece.
Tokens ==
    UP_ARROW \cup DOWN_ARROW \cup {<<"CR">>} \cup ESC_BUTTON \cup BACKSPACE
    \cup {<<"a">>, <<"B">>, <<"ETX">>, <<"EOT">>, <<"SUB">>, <<"ESC", "a">>}

\* The master item sets a session is started with: every sequence of at most
\* MaxItems items of the pool with pairwise distinct keys (a dict).
ItemPool ==
    { [key |-> <<"a">>, desc |-> <<"x">>],
      [key |-> <<"b">>, desc |-> <<"B", "a">>],
      [key |-> <<"a", ":">>, desc |-> <<"x">>] }

ItemSets ==
    UNION { { s \in [1..n -> ItemPool] :
                \A i, j \in 1..n : i # j => s[i].key # s[j].key } :
            n \in 0..MaxItems }

\* The values the external similarity function fuzz.WRatio is let to take.
WRatioVals == {0, 45, 90}

-----------------------------------------------------------------------------
\* Text helpers: Python's str methods on sequences of characters.

UpperCase == {"A", "B"}
Alnum == {"a", "b", "x"} \cup UpperCase

\* str.lower() of one character, of a string
LowerCh(c) == CASE c = "A" -> "a" [] c = "B" -> "b" [] OTHER -> c
lower(s) == [i \in 1..Len(s) |-> LowerCh(s[i])]

\* str.startswith
startswith(s, p) == Len(p) <= Len(s) /\ SubSeq(s, 1, Len(p)) = p

\* str.find: the lowest 0-based index where p occurs in s, -1 if none
find(s, p) ==
    LET at == { i \in 0..(Len(s) - Len(p)) : SubSeq(s, i + 1, i + Len(p)) = p }
    IN IF at = {} THEN -1 ELSE CHOOSE i \in at : \A j \in at : i <= j

\* str.partition(":")[0]: the text before the first ":", all of it if none
partition_head(s) ==
    LET at == { i \in 1..Len(s) : s[i] = ":" }
    IN IF at = {} THEN s
       ELSE SubSeq(s, 1, (CHOOSE i \in at : \A j \in at : i <= j) - 1)

\* str.strip() of blanks
strip(s) ==
    LET ink == { i \in 1..Len(s) : s[i] # " " }
    IN IF ink = {} THEN << >>
       ELSE SubSeq(s, CHOOSE i \in ink : \A j \in ink : i <= j,
                      CHOOSE i \in ink : \A j \in ink : i >= j)

\* thefuzz's default processor, which process.extract applies to the query and
\* to every choice before it calls the scorer: characters that are neither
\* letters nor digits become blanks, the text is lower-cased and stripped.
full_process(s) ==
    strip([i \in 1..Len(s) |-> IF s[i] \in Alnum THEN LowerCh(s[i]) ELSE " "])

-----------------------------------------------------------------------------
\* menu.py: the fuzzy matcher.

\* search_for_matches' defaults
DEFAULT_LIMIT == 10
DEFAULT_THRESHOLD == 46

\* fuzz_scorer giving every prefix match the same score
fuzz_scorer_flat(needle, option, w) ==
    IF startswith(option, needle)
    THEN 100
    ELSE IF w >= 30 /\ find(option, needle) > -1
         THEN w + Len(option) - find(option, needle)
         ELSE w

\* fuzz_scorer(needle, option); w is what fuzz.WRatio(needle, option) returns
fuzz_scorer(needle, option, w) ==
    IF startswith(option, needle)
    THEN 100 + Len(needle) * 10
    ELSE IF w >= 30 /\ find(option, needle) > -1
         THEN w + Len(option) - find(option, needle)
         ELSE w

\* The order process.extract ranks by: descending score, entries of equal
\* score in haystack order. The indices of scores in that order.
SortedIndices(scores) ==
    LET n == Len(scores)
        before(j, i) == scores[j] > scores[i] \/ (scores[j] = scores[i] /\ j < i)
        rank(i) == Cardinality({ j \in 1..n : before(j, i) }) + 1
    IN [p \in 1..n |-> CHOOSE i \in 1..n : rank(i) = p]

\* process.extract(..., limit=limit): the best `limit` entries, as
\* <<index of the option in the haystack, score>> pairs
Best(order, scores, limit) ==
    [p \in 1..(IF limit < Len(scores) THEN limit ELSE Len(scores)) |->
        <<order[p], scores[order[p]]>>]

process_extract(scores, limit) == Best(SortedIndices(scores), scores, limit)

\* search_for_matches keeping only the scores above the threshold
search_for_matches_above(scores, limit, threshold) ==
    SelectSeq(process_extract(scores, limit), LAMBDA pair : pair[2] > threshold)

\* search_for_matches: the extracted pairs whose score reaches the threshold
search_for_matches(scores, limit, threshold) ==
    SelectSeq(process_extract(scores, limit), LAMBDA pair : pair[2] >= threshold)

-----------------------------------------------------------------------------
\* menu.py: Menu.search

\* f"{key}: {desc}"
Option(item) == item.key \o <<":", " ">> \o item.desc

Keys(its) == { its[i].key : i \in 1..Len(its) }
Lookup(its, k) == its[CHOOSE i \in 1..Len(its) : its[i].key = k]

\* The scores process.extract computes for the options of the master set, w[i]
\* being fuzz.WRatio's value for option i.
OptionScores(flt, its, w) ==
    [i \in 1..Len(its) |->
        fuzz_scorer(full_process(lower(flt)), full_process(Option(its[i])), w[i])]

\* The loop of Menu.search over the results: each option is cut at its first
\* ":" and the text before it looked up in _items (a KeyError when it is no
\* key); the dict _items_filtered keeps a key at its first position.
RECURSIVE Project(_, _, _, _)
Project(results, its, k, acc) ==
    IF k > Len(results) THEN [view |-> acc, err |-> "none"]
    ELSE LET ky == partition_head(Option(its[results[k][1]]))
         IN IF ky \notin Keys(its) THEN [view |-> acc, err |-> "KeyError"]
            ELSE Project(results, its, k + 1,
                         IF ky \in Keys(acc) THEN acc
                         ELSE Append(acc, Lookup(its, ky)))

\* Menu.search(): the new _items_filtered, and the exception it raised
search(flt, its, w) ==
    IF flt # << >>
    THEN Project(search_for_matches(OptionScores(flt, its, w),
                                    DEFAULT_LIMIT, DEFAULT_THRESHOLD),
                 its, 1, << >>)
    ELSE [view |-> its, err |-> "none"]

-----------------------------------------------------------------------------
\* keys.py: the raw key source

\* _translate_ch_to_exc: the exception a read character raises, "none" if none
translate_ch_to_exc(ch, win) ==
    IF ch = <<"ETX">> THEN "KeyboardInterrupt"
    ELSE IF ch = <<"EOT">> /\ ~win THEN "EOFError"
    ELSE IF ch = <<"SUB">> /\ win THEN "EOFError"
    ELSE "none"

\* What entering raw_terminal() can meet on a Unix-like system: open("/dev/tty")
\* fails (stdin is no tty), termios.tcgetattr fails, tty.setraw fails, or none.
EnterOutcomes == {"ok", "open_fails", "tcgetattr_fails", "setraw_fails"}

\* The exception `with raw_terminal() as fd:` raises on entry. An OSError of
\* open() is raised as it is; a termios.error is swallowed by
\* `except termios.error: pass`, the generator then ends without a yield and
\* contextlib raises RuntimeError("generator didn't yield").
raw_terminal_enter_exc(outcome) ==
    CASE outcome = "ok" -> "none"
      [] outcome = "open_fails" -> "OSError"
      [] outcome = "tcgetattr_fails" -> "RuntimeError"
      [] outcome = "setraw_fails" -> "RuntimeError"

\* raw_terminal without its try/finally: the settings are set again only
\* when the with-body returns
tty_after_getchar_no_finally(win, mode, old, exc) ==
    IF win THEN mode ELSE IF exc # "none" THEN mode ELSE old

\* The terminal's mode when getchar() is left, by return or by an exception
\* raised in the with-body: the finally clause of raw_terminal sets the saved
\* settings again; the Windows getchar never changes the mode.
tty_after_getchar(win, mode, old, exc) ==
    IF win THEN mode ELSE old

\* Menu.run catching no EOFError
RunCatchesNoEOF == {"KeyboardInterrupt", "QuitException"}

\* The except clause of Menu.run
RunCatches == {"KeyboardInterrupt", "EOFError", "QuitException"}

-----------------------------------------------------------------------------
\* menu.py: Menu.check_key

\* tuple[index] of Python: a negative index counts from the end
PyIndexOk(n, i) == -n <= i /\ i < n
PyIndex(t, i) == IF i >= 0 THEN t[i + 1] ELSE t[Len(t) + i + 1]

\* the clamp without its upper half (lines 141-142)
ClampLowOnly(i, n) == IF i < 0 THEN 0 ELSE i

\* lines 141-144: the clamp, against the length read before the key
Clamp(i, n) ==
    LET a == IF i >= n THEN n - 1 ELSE i
    IN IF a < 0 THEN 0 ELSE a

\* The Menu object's fields check_key reads and writes
Self ==
    [filter |-> filter, items_filtered |-> items_filtered,
     selected_index |-> selected_index, done |-> done, value |-> value,
     exc |-> "none"]

\* the escape key clearing the filter without a new search
on_esc_no_search(m, its) ==
    IF m.filter # << >>
    THEN [m EXCEPT !.filter = << >>, !.selected_index = 0]
    ELSE [m EXCEPT !.exc = "QuitException"]

\* the escape key moving the cursor to the top and leaving the filter
on_esc_keeps_filter(m, its) ==
    IF m.filter # << >>
    THEN [m EXCEPT !.selected_index = 0]
    ELSE [m EXCEPT !.exc = "QuitException"]

\* lines 117-123: the escape key
on_esc(m, its) ==
    IF m.filter # << >>
    THEN [m EXCEPT !.filter = << >>, !.selected_index = 0,
                   !.items_filtered = search(<< >>, its, << >>).view]
    ELSE [m EXCEPT !.exc = "QuitException"]

\* enter taking the first item of the view, whatever the cursor
on_ok_first(m) ==
    [m EXCEPT !.done = TRUE, !.value = m.items_filtered[1].key]

\* lines 124-126: enter, with a non-empty view
on_ok(m) ==
    IF PyIndexOk(Len(m.items_filtered), m.selected_index)
    THEN [m EXCEPT !.done = TRUE,
                   !.value = PyIndex(m.items_filtered, m.selected_index).key]
    ELSE [m EXCEPT !.done = TRUE, !.exc = "IndexError"]

\* lines 131-139: every other token edits the filter and searches again
edit_filter(flt, k) ==
    IF is_backspace(k) THEN SubSeq(flt, 1, Len(flt) - 1) ELSE flt \o lower(k)

searched(m, flt, found) ==
    [m EXCEPT !.filter = flt, !.selected_index = 0,
              !.items_filtered = found.view, !.exc = found.err]

\* search() called for a typed character only, not after a backspace
on_other_no_search(m, its, k, w) ==
    IF is_backspace(k)
    THEN [m EXCEPT !.filter = edit_filter(m.filter, k), !.selected_index = 0]
    ELSE searched(m, edit_filter(m.filter, k),
                  search(edit_filter(m.filter, k), its, w))

on_other(m, its, k, w) ==
    searched(m, edit_filter(m.filter, k), search(edit_filter(m.filter, k), its, w))

\* the down arrow leaving the cursor where it is
on_key_down_stays(m, its, k, w) ==
    IF is_ok(k) /\ Len(m.items_filtered) > 0 THEN on_ok(m)
    ELSE IF is_down(k) THEN m
    ELSE IF is_up(k) THEN [m EXCEPT !.selected_index = m.selected_index - 1]
    ELSE on_other(m, its, k, w)

\* lines 124-139: the branches after the escape key's
on_key(m, its, k, w) ==
    IF is_ok(k) /\ Len(m.items_filtered) > 0 THEN on_ok(m)
    ELSE IF is_down(k) THEN [m EXCEPT !.selected_index = m.selected_index + 1]
    ELSE IF is_up(k) THEN [m EXCEPT !.selected_index = m.selected_index - 1]
    ELSE on_other(m, its, k, w)

\* check_key after getchar() returned token k: the fields after it, and the
\* exception it raised.
\* lines 141-144, reached unless the branch raised; n is len(items), the
\* length of the view as it was before the key was read (line 114)
clamped(m1, n) ==
    IF m1.exc # "none" THEN m1
    ELSE [m1 EXCEPT !.selected_index = Clamp(m1.selected_index, n)]

check_key(m, its, k, w) ==
    IF is_esc(k) THEN on_esc(m, its)
    ELSE clamped(on_key(m, its, k, w), Len(m.items_filtered))

-----------------------------------------------------------------------------
\* Menu.generate: the rows of the table, each with the kind of row it is (by
\* its first cell and style) and the text of its second cell

Row(kind, label) == [kind |-> kind, label |-> label]

\* lines 153-166, but with every row of the view added once done
RECURSIVE ItemRowsAll(_, _, _, _)
ItemRowsAll(view, i, sel, dn) ==
    IF i > Len(view) THEN << >>
    ELSE (IF sel = i - 1
          THEN IF dn THEN <<Row("confirmed", view[i].desc), Row("blank", << >>)>>
               ELSE <<Row("selected", view[i].desc)>>
          ELSE <<Row("plain", view[i].desc)>>)
         \o ItemRowsAll(view, i + 1, sel, dn)

\* lines 153-166: the loop over the view; row i of the view has index i - 1
RECURSIVE ItemRows(_, _, _, _)
ItemRows(view, i, sel, dn) ==
    IF i > Len(view) THEN << >>
    ELSE (IF dn /\ sel # i - 1 THEN << >>
          ELSE IF sel = i - 1
          THEN IF dn THEN <<Row("confirmed", view[i].desc), Row("blank", << >>)>>
               ELSE <<Row("selected", view[i].desc)>>
          ELSE <<Row("plain", view[i].desc)>>)
         \o ItemRows(view, i + 1, sel, dn)

\* lines 168-178: the placeholder, the blank rows and the filter row
Trailer(m) ==
    (IF m.items_filtered = << >> THEN <<Row("placeholder", << >>)>> ELSE << >>)
    \o (IF ~m.done
        THEN <<Row("blank", << >>)>>
             \o (IF m.filter # << >> THEN <<Row("filter", m.filter)>> ELSE << >>)
             \o <<Row("blank", << >>)>>
        ELSE << >>)

\* generate() showing every row of the view once done
generate_every_row(m) ==
    ItemRowsAll(m.items_filtered, 1, m.selected_index, m.done) \o Trailer(m)

generate(m) ==
    ItemRows(m.items_filtered, 1, m.selected_index, m.done) \o Trailer(m)

-----------------------------------------------------------------------------
\* The session

EntryModes == {"cooked", "cbreak"}

\* The tokens one read yields: the Windows getchar reads one character (two
\* for a special key), never a three character escape sequence.
TokensOf(win) ==
    IF win THEN { t \in Tokens : Len(t) = 1 } \ {<<"EOT">>}
    ELSE Tokens \ {<<"SUB">>}

\* The search specification's variables and the scorer specification's, at
\* rest in the session's.
SearchIdle ==
    /\ s_scores = << >>
    /\ s_limit = 0
    /\ s_threshold = 0
    /\ s_pc = "idle"
    /\ s_out = << >>

ScorerIdle ==
    /\ f_n = << >>
    /\ f_o = << >>
    /\ f_q = << >>
    /\ f_wo = 0
    /\ f_wq = 0
    /\ f_pc = "idle"
    /\ f_out = [o |-> 0, q |-> 0]

SIdle == SearchIdle /\ ScorerIdle

\* Nothing seen yet.
NoMatch == <<0>>

HInit ==
    /\ downs = 0
    /\ matched = NoMatch
    /\ escs = 0

\* Menu.search, lines 81-82: what search_for_matches returns for the options
matches(flt, its, w) ==
    search_for_matches(OptionScores(flt, its, w), DEFAULT_LIMIT, DEFAULT_THRESHOLD)

\* The options the matcher returned while check_key handled token k: it is
\* called by the search of the else branch, when the edited filter is not
\* empty.
MatchedBy(m, its, k, w) ==
    IF /\ translate_ch_to_exc(k, WIN) = "none"
       /\ ~is_esc(k) /\ ~is_down(k) /\ ~is_up(k)
       /\ ~(is_ok(k) /\ Len(m.items_filtered) > 0)
       /\ edit_filter(m.filter, k) # << >>
    THEN LET r == matches(edit_filter(m.filter, k), its, w)
         IN [p \in 1..Len(r) |-> r[p][1]]
    ELSE NoMatch

\* The Down keys handled so far once check_key handled token k with outcome m,
\* view being the view it found: enter on a non-empty view ends the count.
DownsAfter(d, k, m, view) ==
    IF m.exc # "none" \/ d < 0 THEN -1
    ELSE IF is_ok(k) /\ Len(view) > 0 THEN d
    ELSE IF is_down(k) /\ d < MaxDowns THEN d + 1
    ELSE -1

\* Menu.__init__, on either platform, before run() is called
Init ==
    /\ WIN \in BOOLEAN
    /\ items \in ItemSets
    /\ items_filtered = items
    /\ selected_index = 0
    /\ done = FALSE
    /\ value = None
    /\ filter = << >>
    /\ pc = "new"
    /\ raised = "none"
    /\ ret = None
    /\ tty \in EntryModes
    /\ entry_tty = tty
    /\ old_settings = "unset"
    /\ key = << >>
    /\ len_before = 0
    /\ calls = "none"
    /\ table = << >>
    /\ HInit
    /\ SIdle

\* Menu.run, lines 99-101: called on a new Menu, or again after it returned
Run ==
    /\ pc \in {"new", "returned"}
    /\ done' = FALSE
    /\ selected_index' = 0
    /\ pc' = "loop"
    /\ raised' = "none"
    /\ ret' = None
    /\ calls' = IF calls = "none" THEN "one" ELSE "more"
    /\ key' = << >>
    /\ len_before' = 0
    /\ table' = generate([Self EXCEPT !.done = FALSE, !.selected_index = 0])
    /\ downs' = IF filter = << >> /\ items_filtered = items THEN 0 ELSE -1
    /\ matched' = NoMatch
    /\ escs' = 0
    /\ UNCHANGED <<WIN, items, items_filtered, value, filter, tty, old_settings,
                   entry_tty, svars>>

\* How run() ends when exception e unwinds out of check_key
EndBy(e) ==
    /\ raised' = e
    /\ ret' = None
    /\ pc' = IF e \in RunCatches THEN "returned" ELSE "raised"

\* check_key calls getchar(), which enters raw_terminal()
GetcharEnter ==
    /\ pc = "loop"
    /\ ~done
    /\ \E outcome \in (IF WIN THEN {"ok"} ELSE EnterOutcomes) :
         LET e == raw_terminal_enter_exc(outcome)
         IN /\ old_settings' = IF ~WIN /\ outcome = "ok" THEN tty ELSE "unset"
            /\ tty' = IF ~WIN /\ outcome = "ok" THEN "raw" ELSE tty
            /\ IF e = "none"
               THEN pc' = "read" /\ UNCHANGED <<raised, ret>>
               ELSE EndBy(e)
    /\ key' = << >>
    /\ len_before' = 0
    /\ matched' = NoMatch
    /\ UNCHANGED <<WIN, items, items_filtered, selected_index, done, value,
                   filter, entry_tty, calls, table, downs, escs, svars>>

\* What fuzz.WRatio can return for the options while check_key handles token
\* k: it is called by the search of a non-empty filter, on the options that do
\* not start with the needle (w[i] = 0 stands for "not called").
WRatioFor(n, called) ==
    { [i \in 1..n |-> IF i \in called THEN f[i] ELSE 0] : f \in [called -> WRatioVals] }

WRatioCalls(its, needle) ==
    WRatioFor(Len(its), { i \in 1..Len(its) :
                            ~startswith(full_process(Option(its[i])), needle) })

WRatioChoices(m, its, k) ==
    LET searches == /\ translate_ch_to_exc(k, WIN) = "none"
                    /\ ~is_esc(k) /\ ~is_down(k) /\ ~is_up(k)
                    /\ ~(is_ok(k) /\ Len(m.items_filtered) > 0)
                    /\ edit_filter(m.filter, k) # << >>
    IN IF searches THEN WRatioCalls(its, full_process(lower(edit_filter(m.filter, k))))
       ELSE {[i \in 1..Len(its) |-> 0]}

\* getchar() reads token k and leaves raw_terminal(); check_key handles k
CheckKey ==
    /\ pc = "read"
    /\ \E k \in TokensOf(WIN) : \E w \in WRatioChoices(Self, items, k) :
         \E m \in {IF translate_ch_to_exc(k, WIN) # "none"
                    THEN [Self EXCEPT !.exc = translate_ch_to_exc(k, WIN)]
                    ELSE check_key(Self, items, k, w)} :
            /\ Len(m.filter) <= MaxFilterLen
            /\ key' = k
            /\ len_before' = Len(filter)
            /\ tty' = tty_after_getchar(WIN, tty, old_settings,
                                        translate_ch_to_exc(k, WIN))
            /\ old_settings' = "unset"
            /\ filter' = m.filter
            /\ items_filtered' = m.items_filtered
            /\ selected_index' = m.selected_index
            /\ done' = m.done
            /\ value' = m.value
            /\ downs' = DownsAfter(downs, k, m, items_filtered)
            /\ matched' = MatchedBy(Self, items, k, w)
            /\ escs' = IF ~is_esc(k) THEN 0 ELSE IF escs = 0 THEN 1 ELSE 2
            /\ IF m.exc = "none"
               THEN /\ pc' = "loop"
                    /\ table' = generate(m)
                    /\ UNCHANGED <<raised, ret>>
               ELSE /\ EndBy(m.exc)
                    /\ UNCHANGED table
    /\ UNCHANGED <<WIN, items, entry_tty, calls, svars>>

\* run() falling off its loop without `return self.value`
RunReturnNothing ==
    /\ pc = "loop"
    /\ done
    /\ ret' = None
    /\ pc' = "returned"
    /\ UNCHANGED <<WIN, items, items_filtered, selected_index, done, value,
                   filter, raised, tty, old_settings, entry_tty, key, len_before,
                   calls, table, hvars, svars>>

\* Menu.run, lines 105-109: the loop ends once _done is set
RunReturn ==
    /\ pc = "loop"
    /\ done
    /\ ret' = value
    /\ pc' = "returned"
    /\ UNCHANGED <<WIN, items, items_filtered, selected_index, done, value,
                   filter, raised, tty, old_settings, entry_tty, key, len_before,
                   calls, table, hvars, svars>>

Next == Run \/ GetcharEnter \/ CheckKey \/ RunReturn

Spec == Init /\ [][Next]_allvars

-----------------------------------------------------------------------------
\* search_for_matches on its own: one call, on any haystack of at most MaxHay
\* scored options, with any limit up to MaxLimit and any threshold.

ScoreVals == {0, 45, 46, 120}
ThresholdVals == {0, 46, 121}

Haystacks == UNION { [1..n -> ScoreVals] : n \in 0..MaxHay }

\* The session's variables, at rest in the two pure-function specifications.
MenuIdle ==
    /\ WIN = FALSE
    /\ items = << >>
    /\ items_filtered = << >>
    /\ selected_index = 0
    /\ done = FALSE
    /\ value = None
    /\ filter = << >>
    /\ pc = "new"
    /\ raised = "none"
    /\ ret = None
    /\ tty = "cooked"
    /\ entry_tty = "cooked"
    /\ old_settings = "unset"
    /\ key = << >>
    /\ len_before = 0
    /\ calls = "none"
    /\ table = << >>
    /\ HInit

SearchInit ==
    /\ MenuIdle
    /\ ScorerIdle
    /\ s_scores \in Haystacks
    /\ s_limit \in 0..MaxLimit
    /\ s_threshold \in ThresholdVals
    /\ s_pc = "call"
    /\ s_out = << >>

SearchCall ==
    /\ s_pc = "call"
    /\ s_out' = search_for_matches(s_scores, s_limit, s_threshold)
    /\ s_pc' = "returned"
    /\ UNCHANGED <<vars, s_scores, s_limit, s_threshold, fvars>>

SearchNext == SearchCall

SearchSpec == SearchInit /\ [][SearchNext]_allvars

-----------------------------------------------------------------------------
\* fuzz_scorer on its own: one needle scored against two options, for any
\* needle of at most MaxNeedle characters, any two options of the pool and any
\* values of fuzz.WRatio.

ScorerAlphabet == {"a", "A"}

Needles == UNION { [1..n -> ScorerAlphabet] : n \in 0..MaxNeedle }

\* "b" followed by LongLen "a"s
LongOption == <<"b">> \o [i \in 1..LongLen |-> "a"]

Options ==
    UNION { [1..n -> ScorerAlphabet] : n \in 0..MaxOption }
    \cup {<<"b", "a">>, LongOption}

ScorerInit ==
    /\ MenuIdle
    /\ SearchIdle
    /\ f_n \in Needles
    /\ f_o \in Options
    /\ f_q \in Options
    /\ f_wo \in WRatioVals
    /\ f_wq \in WRatioVals
    /\ f_pc = "call"
    /\ f_out = [o |-> 0, q |-> 0]

ScorerCall ==
    /\ f_pc = "call"
    /\ f_out' = [o |-> fuzz_scorer(f_n, f_o, f_wo), q |-> fuzz_scorer(f_n, f_q, f_wq)]
    /\ f_pc' = "returned"
    /\ UNCHANGED <<vars, s_scores, s_limit, s_threshold, s_pc, s_out,
                   f_n, f_o, f_q, f_wo, f_wq>>

ScorerNext == ScorerCall

ScorerSpec == ScorerInit /\ [][ScorerNext]_allvars

-----------------------------------------------------------------------------
\* The state machine's states, and the key events, as the properties read them.

\* Active: run() is in its loop and no item was confirmed
Active == pc \in {"loop", "read"} /\ ~done
\* the session ended by the escape key (QuitException, caught by run)
Cancelled == pc = "returned" /\ raised = "QuitException"
\* the session ended by an abort signal of the key read
Aborted == pc = "returned" /\ raised \in {"KeyboardInterrupt", "EOFError"}

\* A step in which check_key handles a token of the set T
KeyEvent(T) == pc = "read" /\ key' \in T
AbortTokens(win) == {<<"ETX">>} \cup (IF win THEN {<<"SUB">>} ELSE {<<"EOT">>})

\* C1: in every state of a session, whatever keys were handled and whatever the
\* matcher returned, the cursor is an index of the filtered view when the view
\* is non-empty, and 0 when it is empty.
C1_CursorInBounds ==
    IF items_filtered = << >>
    THEN selected_index = 0
    ELSE 0 <= selected_index /\ selected_index < Len(items_filtered)

\* Up was handled while a non-empty filter matched nothing: the cursor went
\* to -1 and both halves of the clamp brought it back to 0.
C1_Witness ==
    /\ pc = "loop"
    /\ key \in UP_ARROW
    /\ filter # << >>
    /\ items_filtered = << >>
    /\ selected_index = 0

\* C2: a Confirm key handled while the view is non-empty sets _done and makes
\* the result the key that stood at the cursor in the view as it was before
\* the key; the view and the filter stay as they were and run() goes on to
\* return.
C2_ConfirmTakesCursorItem ==
    [][(KeyEvent(OK_BUTTON) /\ items_filtered # << >>)
        => /\ done'
           /\ value' = items_filtered[selected_index + 1].key
           /\ pc' = "loop"
           /\ raised' = "none"]_allvars

\* Confirmed on the second row of a filtered view.
C2_Witness ==
    /\ done
    /\ key \in OK_BUTTON
    /\ filter # << >>
    /\ selected_index = 1
    /\ Len(items_filtered) >= 2
    /\ value = items_filtered[2].key
    /\ value # items_filtered[1].key

\* C3: a Confirm key handled while the view is empty changes nothing: the
\* session stays Active and the filter, the view, the cursor and the result
\* are what they were.
C3_EmptyConfirmNoOp ==
    [][(KeyEvent(OK_BUTTON) /\ items_filtered = << >>)
        => /\ pc' = "loop"
           /\ ~done'
           /\ UNCHANGED <<filter, items_filtered, selected_index, value>>]_allvars

\* C4: the Cancel key ends the session in Cancelled, run() returning None, when
\* the filter is empty; when it is not, the filter becomes empty, the cursor 0
\* and the view the full item set, and the session stays Active.
C4_Cancel ==
    [][KeyEvent(ESC_BUTTON)
        => IF filter = << >>
           THEN /\ pc' = "returned"
                /\ raised' = "QuitException"
                /\ ret' = None
                /\ UNCHANGED <<filter, items_filtered, selected_index, done, value>>
           ELSE /\ pc' = "loop"
                /\ ~done'
                /\ filter' = << >>
                /\ selected_index' = 0
                /\ items_filtered' = items
                /\ value' = value]_allvars

\* Cancel cleared a filter that had hidden some of at least two items.
C4_Witness ==
    /\ pc = "loop"
    /\ key \in ESC_BUTTON
    /\ len_before > 0
    /\ filter = << >>
    /\ Len(items) >= 2
    /\ items_filtered = items
    /\ selected_index = 0

\* C5: when run() has returned, what it returned is a key of the master item
\* set exactly when the session ended Confirmed (_done set), and None when it
\* ended by Cancel or by an abort signal; within a session the result is
\* assigned only by the step that sets _done, after which no key is handled.
C5_ResultIffConfirmed ==
    /\ [](pc = "returned" => /\ (ret \in Keys(items)) <=> done
                             /\ (Cancelled \/ Aborted) => (ret = None /\ ~done))
    /\ [](pc = "read" => ~done)
    /\ [][value' # value => (pc = "read" /\ ~done /\ done')]_allvars

\* A first session that returned the key of its second item.
C5_Witness ==
    /\ pc = "returned"
    /\ calls = "one"
    /\ done
    /\ Len(items) >= 2
    /\ ret = items[2].key
    /\ ret = value

\* C6: a key read that yields an abort signal (Ctrl+C, or the platform's
\* end-of-input character) ends the session at once: run() returns None, no
\* exception leaves it, and the filter, the view, the cursor and the result
\* are left as they were, whatever they were.
C6_AbortEndsSession ==
    [][KeyEvent(AbortTokens(WIN))
        => /\ pc' = "returned"
           /\ ret' = None
           /\ raised' \in {"KeyboardInterrupt", "EOFError"}
           /\ UNCHANGED <<filter, items_filtered, selected_index, done, value>>]_allvars

\* End-of-input ended a session whose filter was not empty.
C6_Witness ==
    /\ Aborted
    /\ raised = "EOFError"
    /\ filter # << >>
    /\ Len(items_filtered) >= 1
    /\ ret = None

C8_AcquireFailureReturnsNone ==
    [][(pc = "loop" /\ ~done /\ pc' # "read")
        => (pc' = "returned" /\ ret' = None)]_allvars

\* C9: a Backspace that empties the filter, after Char keys had filled it,
\* leaves the view equal to the master item set in insertion order and the
\* cursor at 0; and whenever the filter is empty the view is the master set.
C9_BackspaceRestoresView ==
    /\ [](filter = << >> => items_filtered = items)
    /\ [][(KeyEvent(BACKSPACE) /\ filter' = << >>)
           => (items_filtered' = items /\ selected_index' = 0 /\ pc' = "loop")]_allvars

\* Backspace removed the last character of a filter that had hidden an item of
\* a master set of at least two.
C9_Witness ==
    /\ pc = "loop"
    /\ key \in BACKSPACE
    /\ len_before = 1
    /\ filter = << >>
    /\ Len(items) >= 2
    /\ items_filtered = items
    /\ selected_index = 0

\* The search policy as the specification words it: keep the entries whose
\* score reaches the threshold, sort them by descending score (entries of
\* equal score in haystack order), cut to the limit.
KeepSortCut(scores, limit, threshold) ==
    LET kept == { i \in 1..Len(scores) : scores[i] >= threshold }
        before(j, i) == scores[j] > scores[i] \/ (scores[j] = scores[i] /\ j < i)
        place(i) == Cardinality({ j \in kept : before(j, i) }) + 1
        n == IF limit < Cardinality(kept) THEN limit ELSE Cardinality(kept)
    IN [p \in 1..n |-> LET i == CHOOSE i \in kept : place(i) = p
                       IN <<i, scores[i]>>]

C11_PrefixScore ==
    (f_pc = "returned" /\ startswith(f_o, f_n)) =>
        /\ f_out.o >= 100
        /\ \A n2 \in Needles, o2 \in Options, w \in WRatioVals :
             (startswith(o2, n2) /\ Len(n2) < Len(f_n))
                => fuzz_scorer(n2, o2, w) < f_out.o

\* A two character needle scored against an option that starts with it.
C11_Witness ==
    /\ f_pc = "returned"
    /\ Len(f_n) = 2
    /\ startswith(f_o, f_n)
    /\ f_out.o = 120

\* C11 as stated: when the option starts with the needle once case is
\* ignored, fuzz_scorer returns at least 100.
C11_PrefixScoreIgnoringCase ==
    (f_pc = "returned" /\ startswith(lower(f_o), lower(f_n))) => f_out.o >= 100

\* C12: a needle scores higher against an option that starts with it than
\* against one that does not, whatever fuzz.WRatio returns and however long
\* the options are.
C12_PrefixOutranks ==
    (f_pc = "returned" /\ startswith(f_o, f_n) /\ ~startswith(f_q, f_n))
        => f_out.o > f_out.q

\* The smaller of two numbers
Min(a, b) == IF a < b THEN a ELSE b

C14_ViewIsWhatMatched ==
    matched # NoMatch =>
        /\ raised = "none"
        /\ items_filtered = [p \in 1..Len(matched) |-> items[matched[p]]]

\* The characters that are not printable, by the names the model gives them
ControlNames == {"CR", "LF", "ESC", "DEL", "ETX", "EOT", "SUB"}

\* The tokens that are neither Up, Down, Confirm or Cancel nor an abort signal
FilterTokens(win) ==
    TokensOf(win) \ (UP_ARROW \cup DOWN_ARROW \cup OK_BUTTON \cup ESC_BUTTON
                     \cup AbortTokens(win))

\* C15: a key read that is not Up, Down, Confirm or Cancel changes the filter
\* by at most one character: backspace removes the last character, a single
\* printable character is appended lower-cased, and any other token leaves the
\* filter as it was.
C15_OneCharacterPerKey ==
    [][KeyEvent(FilterTokens(WIN)) =>
         IF is_backspace(key')
         THEN filter' = SubSeq(filter, 1, Len(filter) - 1)
         ELSE IF Len(key') = 1 /\ key'[1] \notin ControlNames
         THEN filter' = filter \o <<LowerCh(key'[1])>>
         ELSE filter' = filter]_allvars

\* The rows of a table that stand for items, and whether it has a filter row
ItemRowsOf(t) ==
    LET IsItem(r) == r.kind \in {"selected", "plain", "confirmed", "placeholder"}
    IN SelectSeq(t, IsItem)

HasFilterRow(t) == \E i \in 1..Len(t) : t[i].kind = "filter"

\* The states whose table generate() made from the fields as they are now:
\* in the loop of run(), and after it returned the value
Rendered == pc \in {"loop", "read"} \/ (pc = "returned" /\ raised = "none")

\* C16: in every state generate() rendered: while the session is active and
\* the view is not empty the table has one row for each item of the view, in
\* order, and exactly one of them, the row at the cursor, is the selected one;
\* while it is active and the view is empty the only item row is the
\* placeholder; the filter row is there exactly when the session is active and
\* the filter is not empty; and once confirmed the only item row is the
\* confirmed item's.
C16_Rendering ==
    Rendered =>
        LET rows == ItemRowsOf(table)
            n == Len(items_filtered)
        IN /\ (~done /\ n > 0) =>
                /\ Len(rows) = n
                /\ selected_index + 1 \in 1..n
                /\ \A i \in 1..n :
                     rows[i] = Row(IF i = selected_index + 1 THEN "selected"
                                   ELSE "plain", items_filtered[i].desc)
           /\ (~done /\ n = 0) => rows = <<Row("placeholder", << >>)>>
           /\ HasFilterRow(table) <=> (~done /\ filter # << >>)
           /\ \A i \in 1..Len(table) :
                table[i].kind = "filter" => table[i].label = filter
           /\ done =>
                /\ selected_index + 1 \in 1..n
                /\ rows = <<Row("confirmed", items_filtered[selected_index + 1].desc)>>
                /\ value = items_filtered[selected_index + 1].key

\* An active session showing two items under a typed filter, the cursor on
\* the second.
C16_Witness ==
    /\ pc = "loop"
    /\ ~done
    /\ Len(items_filtered) = 2
    /\ selected_index = 1
    /\ filter # << >>
    /\ HasFilterRow(table)
    /\ ItemRowsOf(table)[2].kind = "selected"

\* C17: every call of run(), the first one and any later one on the same
\* Menu, starts its session with an empty filter, the full view, the cursor
\* at 0 and no result.
C17_SessionStartsFresh ==
    [][(pc \in {"new", "returned"} /\ pc' = "loop") =>
         /\ filter' = << >>
         /\ items_filtered' = items
         /\ selected_index' = 0
         /\ value' = None]_allvars

\* C18: in every session, once the escape key was handled the filter is
\* empty, and once it was handled twice in a row the session has ended: run()
\* caught QuitException and returned None.
C18_TwoCancelsEnd ==
    /\ escs >= 1 => filter = << >>
    /\ escs = 2 => (Cancelled /\ ret = None)

\* A session with a typed filter ended by two escape keys in a row.
C18_Witness ==
    /\ escs = 2
    /\ Cancelled
    /\ ret = None
    /\ filter = << >>

====
